---- MODULE Spec2Model ----
(***************************************************************************)
(* noWorkflow activation graph: the tree builder (generate_graph,          *)
(* list_to_call, sequence), the tree visitors (TreeVisitor,                *)
(* NoMatchVisitor, CombineVisitor) and the export step (to_dict) of        *)
(* capture/noworkflow/now/graphs/trial_graph.py, driven by the view        *)
(* requests of TrialGraph.                                                 *)
(***************************************************************************)
EXTENDS Integers, Sequences, FiniteSets, TLC

VARIABLES trial, pc, view, stack, level, idx, graph, visitor, err

vars == <<trial, pc, view, stack, level, idx, graph, visitor, err>>

(***************************************************************************)
(* Bounds of the model.                                                    *)
(***************************************************************************)
\* longest trace whose shape (parent vector) is enumerated in full
MaxActs == 7
\* longest trace whose names and durations are enumerated too
MaxRich == 3
\* longest trace in which a parent id may be one that was not seen earlier
MaxOrphan == 3

Names == {"f", "g"}
Durations == {50, 300, 1200}
DefaultName == "f"
DefaultDuration == 50
TrialId == 1
NoParent == -1

None == [tag |-> "None"]

(***************************************************************************)
(* Small helpers.                                                          *)
(***************************************************************************)
Last(s) == s[Len(s)]
Front(s) == SubSeq(s, 1, Len(s) - 1)
Max(a, b) == IF a >= b THEN a ELSE b
Min(a, b) == IF a <= b THEN a ELSE b

RECURSIVE Xor(_, _)
\* Python's a ^ b on non-negative integers
Xor(a, b) ==
    IF a = 0 THEN b
    ELSE IF b = 0 THEN a
    ELSE 2 * Xor(a \div 2, b \div 2) + (((a % 2) + (b % 2)) % 2)

RECURSIVE Gcd(_, _)
Gcd(a, b) == IF b = 0 THEN a ELSE Gcd(b, a % b)

(***************************************************************************)
(* The activations of a trial: Activation rows ordered by start.  The id   *)
(* of the k-th activation is k - 1; parent is caller_id.                   *)
(***************************************************************************)
Act(k, p, n, d) ==
    [id |-> k - 1, parent |-> p, name |-> n, duration |-> d,
     trial_id |-> TrialId]

\* parent vectors in which every parent started earlier
EarlierParents(n) ==
    { p \in [1..n -> NoParent..(n - 2)] :
        /\ p[1] = NoParent
        /\ \A k \in 2..n : p[k] >= 0 /\ p[k] < k - 1 }

\* parent vectors in which a parent may be any other activation, or none
AnyParents(n) ==
    { p \in [1..n -> NoParent..(n - 1)] :
        /\ p[1] = NoParent
        /\ \A k \in 2..n : p[k] # k - 1 }

ShapeTraces ==
    UNION { { [k \in 1..n |-> Act(k, p[k], DefaultName, DefaultDuration)] :
                p \in EarlierParents(n) } : n \in 1..MaxActs }

OrphanTraces ==
    UNION { { [k \in 1..n |-> Act(k, p[k], DefaultName, DefaultDuration)] :
                p \in AnyParents(n) } : n \in 1..MaxOrphan }

RichTraces ==
    UNION { { [k \in 1..n |-> Act(k, x[1][k], x[2][k], x[3][k])] :
                x \in EarlierParents(n) \X [1..n -> Names]
                        \X [1..n -> Durations] } : n \in 1..MaxRich }

Traces == {<<>>} \cup ShapeTraces \cup OrphanTraces \cup RichTraces

(***************************************************************************)
(* Structural nodes (graphs/structures.py).                                *)
(***************************************************************************)
\* Single(activation)
Single(act) ==
    [tag |-> "Single", id |-> act.id, parent |-> act.parent,
     name |-> act.name, duration |-> act.duration, count |-> 1,
     trial_id |-> act.trial_id, level |-> -1, use_id |-> TRUE,
     namespace |-> ""]

\* Call(caller, called)
Call(caller, called) ==
    [tag |-> "Call", caller |-> caller, called |-> called,
     level |-> -1, use_id |-> TRUE]

\* the identity of a Group element: elements hash by object identity, and
\* every element owns a distinct activation (its own, or its caller's)
Key(e) == IF e.tag = "Call" THEN e.caller.id ELSE e.id

\* Group.add_subelement(previous): previous becomes the first element
GroupAddSubelement(g, previous) ==
    [g EXCEPT !.nodes = <<previous>> \o g.nodes,
              !.edges = Append(g.edges,
                               [previous |-> Key(previous),
                                next |-> g.next, count |-> 1]),
              !.next = Key(previous)]

\* Group().initialize(previous, next)
GroupInitialize(previous, next) ==
    GroupAddSubelement(
        [tag |-> "Group", nodes |-> <<next>>, edges |-> <<>>,
         next |-> Key(next), last |-> Key(next), count |-> 1,
         level |-> -1, use_id |-> TRUE],
        previous)

\* Single.name_id()
NameId(single) == single.name

\* Mixed(element): a list of equivalent elements; duration and first are
\* unset until mix_results runs; policy is the pluggable combination rule
Mixed(element, policy) ==
    [tag |-> "Mixed", elements |-> <<element>>, first |-> None,
     duration |-> -1, policy |-> policy,
     level |-> -1, use_id |-> TRUE]

\* Mixed.add_element(element)
MixedAddElement(mixed, element) ==
    [mixed EXCEPT !.elements = Append(@, element)]

RECURSIVE CombinedDuration(_, _)
\* the durations of the elements, summed or maximised
CombinedDuration(elements, policy) ==
    IF Len(elements) = 1 THEN elements[1].duration
    ELSE LET rest == CombinedDuration(Tail(elements), policy)
         IN  IF policy = "sum" THEN elements[1].duration + rest
             ELSE Max(elements[1].duration, rest)

\* Mixed.mix_results(): populates first and duration
MixResults(mixed) ==
    [mixed EXCEPT !.first = mixed.elements[1],
                  !.duration = CombinedDuration(mixed.elements, mixed.policy)]

(***************************************************************************)
(* The tree builder.                                                       *)
(***************************************************************************)
\* sequence(previous, next)
SequenceOf(previous, next) ==
    IF next.tag = "Group"
    THEN GroupAddSubelement(next, previous)
    ELSE GroupInitialize(previous, next)

RECURSIVE FoldGroup(_, _)
\* the while loop of list_to_call: pop previous, next = sequence(previous, next)
FoldGroup(group, next) ==
    IF group = <<>> THEN next
    ELSE FoldGroup(Front(group), SequenceOf(Last(group), next))

\* a variant of list_to_call that keeps only the last element of the list
ListToCallDropping(stk) ==
    LET group == Last(stk)
        rest == Front(stk)
        next == Last(group)
        caller == Last(Last(rest))
        call == [Call(caller, [next EXCEPT !.level = caller.level + 1])
                   EXCEPT !.level = caller.level]
    IN  Append(Front(rest), Append(Front(Last(rest)), call))

\* list_to_call(stack)
ListToCall(stk) ==
    LET group == Last(stk)
        rest == Front(stk)
        next == FoldGroup(Front(group), Last(group))
        caller == Last(Last(rest))
        call == [Call(caller, [next EXCEPT !.level = caller.level + 1])
                   EXCEPT !.level = caller.level]
    IN  Append(Front(rest), Append(Front(Last(rest)), call))

(***************************************************************************)
(* Python values of mixed type: an edge count is a number or the           *)
(* placeholder ''; a node's mean is unset or the quotient duration/count.  *)
(***************************************************************************)
Num(n) == [int |-> n]
EmptyStr == [str |-> ""]
NoMean == <<0, 0>>
\* duration / count under "from __future__ import division", in lowest terms
Quotient(a, b) == LET g == Gcd(a, b) IN
    IF g = 0 THEN <<0, 1>> ELSE <<a \div g, b \div g>>

(***************************************************************************)
(* The graph accumulator: TreeVisitor.__init__ and CombineVisitor.__init__ *)
(***************************************************************************)
\* the default of min_duration: 1000^10 is Python's exclusive or
MinDefault == Xor(1000, 10)
MaxDefault == 0

NewVisitor(cls) ==
    [cls |-> cls,
     nodes |-> <<>>,
     edges |-> <<>>,
     delegated |-> {[typ |-> "initial", node |-> 0, count |-> 1]},
     nid |-> 0,
     min_duration |-> [t \in {} |-> 0],
     max_duration |-> [t \in {} |-> 0],
     context |-> {},
     context_edges |-> {},
     namestack |-> <<>>,
     \* history, not program state: every add_edge call with the number of
     \* nodes held when it was made, and every attribute written on the tree
     calls |-> <<>>,
     writes |-> {},
     \* history: what each visit_mixed did, in order
     steps |-> <<>>]

\* Single.to_dict(nid)
SingleToDict(single, nid) ==
    [index |-> nid, repr |-> "", duration |-> -1,
     node |-> [trial_id |-> single.trial_id, count |-> single.count,
               duration |-> single.duration, mean |-> NoMean,
               info |-> [typ |-> "Info", acts |-> {single.id}]]]

\* TreeVisitor.add_node
TreeAddNode(v, node) ==
    [v |-> [v EXCEPT !.nodes = Append(@, SingleToDict(node, v.nid)),
                     !.nid = @ + 1],
     id |-> v.nid]

\* TreeVisitor.add_edge
TreeAddEdge(v, source, target, count, typ) ==
    [v EXCEPT !.edges = Append(@, [source |-> source, target |-> target,
                                   count |-> Num(count), type |-> typ])]

RECURSIVE Join(_)
\* ' '.join(names)
Join(names) ==
    IF names = <<>> THEN ""
    ELSE IF Len(names) = 1 THEN names[1]
    ELSE names[1] \o " " \o Join(Tail(names))

\* CombineVisitor.namespace
Namespace(v) == Join(v.namestack)

\* CombineVisitor.update_namespace_node
UpdateNamespaceNode(node, single) ==
    [node EXCEPT !.count = @ + single.count,
                 !.duration = @ + single.duration,
                 !.info.acts = @ \cup {single.id}]

\* CombineVisitor.add_node
CombineAddNode(v, single) ==
    LET namespace == Namespace([v EXCEPT !.namestack =
                                           Append(@, NameId(single))])
        hit == {c \in v.context : c.ns = namespace}
    IN  IF hit # {}
        THEN LET pos == (CHOOSE c \in hit : TRUE).pos
             IN  [v |-> [v EXCEPT !.nodes[pos].node =
                                     UpdateNamespaceNode(@, single)],
                  id |-> v.nodes[pos].index]
        ELSE LET w == [v EXCEPT !.writes =
                         @ \cup {[id |-> single.id, namespace |-> namespace]}]
                 r == TreeAddNode(w, single)
             IN  [v |-> [r.v EXCEPT !.context =
                           @ \cup {[ns |-> namespace, pos |-> Len(r.v.nodes)]}],
                  id |-> r.id]

\* "{} {} {}".format(source, target, typ)
EdgeKey(source, target, typ) ==
    ToString(source) \o " " \o ToString(target) \o " " \o typ

\* a variant of CombineVisitor.add_edge that appends every edge
CombineAddEdgeAlways(v, source, target, count, typ) ==
    TreeAddEdge(v, source, target, count, typ)

\* CombineVisitor.add_edge
CombineAddEdge(v, source, target, count, typ) ==
    LET edge == EdgeKey(source, target, typ)
        hit == {c \in v.context_edges : c.key = edge}
    IN  IF hit = {}
        THEN LET w == TreeAddEdge(v, source, target, count, typ)
             IN  [w EXCEPT !.context_edges =
                     @ \cup {[key |-> edge, pos |-> Len(w.edges)]}]
        ELSE LET pos == (CHOOSE c \in hit : TRUE).pos
             IN  [v EXCEPT !.edges[pos].count = Num(@.int + count)]

\* self.add_node, by the class of the visitor
AddNode(v, node) ==
    IF v.cls = "CombineVisitor" THEN CombineAddNode(v, node)
    ELSE TreeAddNode(v, node)

\* self.add_edge, by the class of the visitor
AddEdge(v, source, target, count, typ) ==
    LET w == [v EXCEPT !.calls =
                Append(@, [source |-> source, target |-> target,
                           count |-> count, type |-> typ,
                           nodes |-> Len(v.nodes)])]
    IN  IF v.cls = "CombineVisitor"
        THEN CombineAddEdge(w, source, target, count, typ)
        ELSE TreeAddEdge(w, source, target, count, typ)

\* self.nodes[node_id]['repr'] = repr(element)
SetRepr(v, node_id, element) ==
    [v EXCEPT !.nodes[node_id + 1].repr = element.tag]

(***************************************************************************)
(* TreeVisitor                                                             *)
(***************************************************************************)
RECURSIVE Visit(_, _)

RECURSIVE CallEdges(_, _, _, _)
\* the for loop of TreeVisitor.visit_call
CallEdges(v, caller_id, callees, pos) ==
    IF pos > Len(callees) THEN v
    ELSE CallEdges(AddEdge(v, caller_id, callees[pos], pos, "call"),
                   caller_id, callees, pos + 1)

\* a variant of the loop that never increments pos
CallEdgesSamePos(v, caller_id, callees) ==
    LET RECURSIVE go(_, _)
        go(w, k) == IF k > Len(callees) THEN w
                    ELSE go(AddEdge(w, caller_id, callees[k], 1, "call"),
                            k + 1)
    IN  go(v, 1)

\* the callee edges of TreeVisitor.visit_call, pos starting at 1
CallEdgesFrom1(v, caller_id, callees) == CallEdges(v, caller_id, callees, 1)

\* TreeVisitor.visit_call
TreeVisitCall(call, v) ==
    LET a == AddNode(v, call.caller)
        r == Visit(call.called, SetRepr(a.v, a.id, call))
    IN  [v |-> CallEdgesFrom1(r.v, a.id, r.ids), ids |-> <<a.id>>]

RECURSIVE TreeGroupLoop(_, _, _, _)
\* the for loop of TreeVisitor.visit_group
TreeGroupLoop(elements, k, v, result) ==
    IF k > Len(elements) THEN [v |-> v, ids |-> result]
    ELSE LET r == Visit(elements[k], v)
         IN  TreeGroupLoop(elements, k + 1, r.v, result \o r.ids)

\* TreeVisitor.visit_group
TreeVisitGroup(group, v) == TreeGroupLoop(group.nodes, 1, v, <<>>)

\* TreeVisitor.visit_single
TreeVisitSingle(single, v) ==
    LET a == AddNode(v, single) IN [v |-> a.v, ids |-> <<a.id>>]

(***************************************************************************)
(* NoMatchVisitor                                                          *)
(***************************************************************************)
Has(delegated, typ) == \E d \in delegated : d.typ = typ
Get(delegated, typ) == CHOOSE d \in delegated : d.typ = typ
Put(delegated, typ, node, count) ==
    {d \in delegated : d.typ # typ}
        \cup {[typ |-> typ, node |-> node, count |-> count]}

\* a variant of use_delegated that hands the map out without clearing it
UseDelegatedKeeping(v) == v

\* NoMatchVisitor.use_delegated: self.delegated = {} (the old map is returned)
UseDelegated(v) == [v EXCEPT !.delegated = {}]

RECURSIVE CisLoop(_, _, _, _, _)
\* the for loop of solve_cis_delegation over ['call', 'initial', 'sequence']
CisLoop(v, node_id, node_count, delegated, typs) ==
    IF typs = <<>> THEN v
    ELSE LET typ == Head(typs)
             w == IF Has(delegated, typ)
                  THEN AddEdge(v, Get(delegated, typ).node, node_id,
                               node_count, typ)
                  ELSE v
         IN  CisLoop(w, node_id, node_count, delegated, Tail(typs))

\* NoMatchVisitor.solve_cis_delegation
SolveCisDelegation(v, node_id, node_count, delegated) ==
    CisLoop(v, node_id, node_count, delegated,
            <<"call", "initial", "sequence">>)

\* NoMatchVisitor.solve_ret_delegation
SolveRetDelegation(v, node_id, node_count, delegated) ==
    IF Has(delegated, "return")
    THEN LET edge == Get(delegated, "return")
         IN  AddEdge(v, node_id, edge.node, edge.count, "return")
    ELSE v

\* a variant of solve_delegation that forgets the return entry
SolveDelegationCisOnly(v, node_id, node_count, delegated) ==
    SolveCisDelegation(v, node_id, node_count, delegated)

\* NoMatchVisitor.solve_delegation
SolveDelegation(v, node_id, node_count, delegated) ==
    SolveRetDelegation(
        SolveCisDelegation(v, node_id, node_count, delegated),
        node_id, node_count, delegated)

\* NoMatchVisitor.visit_call
NoMatchVisitCall(call, v) ==
    LET delegated == v.delegated
        a == AddNode(UseDelegated(v), call.caller)
        caller_id == a.id
        v1 == SetRepr(a.v, caller_id, call)
        v2 == IF delegated # {}
              THEN SolveDelegation(v1, caller_id, 0, delegated)
              ELSE v1
        v3 == [v2 EXCEPT !.delegated =
                 Put(Put(@, "call", caller_id, 1), "return", caller_id, 1)]
        r == Visit(call.called, v3)
    IN  [v |-> r.v, id |-> caller_id, node |-> Key(call)]

RECURSIVE NoMatchGroupLoop(_, _, _, _)
\* the first for loop of NoMatchVisitor.visit_group
NoMatchGroupLoop(elements, k, v, node_map) ==
    IF k > Len(elements) THEN [v |-> v, node_map |-> node_map]
    ELSE LET r == Visit(elements[k], v)
         IN  NoMatchGroupLoop(elements, k + 1, r.v,
                 {m \in node_map : m.node # r.node}
                     \cup {[node |-> r.node, id |-> r.id]})

RECURSIVE SequenceEdges(_, _, _, _)
\* the loop of NoMatchVisitor.visit_group over group.edges
SequenceEdges(v, edges, k, node_map) ==
    IF k > Len(edges) THEN v
    ELSE LET e == edges[k]
             src == (CHOOSE m \in node_map : m.node = e.previous).id
             tgt == (CHOOSE m \in node_map : m.node = e.next).id
         IN  SequenceEdges(AddEdge(v, src, tgt, e.count, "sequence"),
                           edges, k + 1, node_map)

\* a variant of visit_group that returns from the first element
NoMatchVisitGroupReturnFromNext(group, v) ==
    LET delegated == v.delegated
        r == NoMatchGroupLoop(group.nodes, 1, UseDelegated(v), {})
        at(key) == (CHOOSE m \in r.node_map : m.node = key).id
        v1 == SolveCisDelegation(r.v, at(group.next), group.count, delegated)
        v2 == SolveRetDelegation(v1, at(group.next), group.count, delegated)
        v3 == SequenceEdges(v2, group.edges, 1, r.node_map)
    IN  [v |-> v3, id |-> at(group.next), node |-> group.next]

\* NoMatchVisitor.visit_group
NoMatchVisitGroup(group, v) ==
    LET delegated == v.delegated
        r == NoMatchGroupLoop(group.nodes, 1, UseDelegated(v), {})
        at(key) == (CHOOSE m \in r.node_map : m.node = key).id
        v1 == SolveCisDelegation(r.v, at(group.next), group.count, delegated)
        v2 == SolveRetDelegation(v1, at(group.last), group.count, delegated)
        v3 == SequenceEdges(v2, group.edges, 1, r.node_map)
    IN  [v |-> v3, id |-> at(group.next), node |-> group.next]

\* a variant of visit_single that resolves the pending edges before the
\* node is added
NoMatchVisitSingleEdgesFirst(single, v) ==
    LET delegated == v.delegated
        v0 == UseDelegated(v)
        v1 == IF delegated # {}
              THEN SolveDelegation(v0, v0.nid, single.count, delegated)
              ELSE v0
        a == AddNode(v1, single)
    IN  [v |-> SetRepr(a.v, a.id, single), id |-> a.id, node |-> Key(single)]

\* NoMatchVisitor.visit_single
NoMatchVisitSingle(single, v) ==
    LET delegated == v.delegated
        a == AddNode(UseDelegated(v), single)
        v1 == SetRepr(a.v, a.id, single)
        v2 == IF delegated # {}
              THEN SolveDelegation(v1, a.id, single.count, delegated)
              ELSE v1
    IN  [v |-> v2, id |-> a.id, node |-> Key(single)]

(***************************************************************************)
(* CombineVisitor                                                          *)
(***************************************************************************)
\* CombineVisitor.visit_call
CombineVisitCall(call, v) ==
    LET r == NoMatchVisitCall(call,
                 [v EXCEPT !.namestack = Append(@, NameId(call.caller))])
    IN  [r EXCEPT !.v.namestack = Front(@)]

(***************************************************************************)
(* visit_mixed                                                             *)
(***************************************************************************)
\* one entry of the history of visit_mixed
Step(v, op, id, value) ==
    [v EXCEPT !.steps = Append(@, [op |-> op, id |-> id, value |-> value])]

\* self.nodes[node_id]['duration'] = mixed.duration
SetDuration(v, node_id, duration) ==
    Step([v EXCEPT !.nodes[node_id + 1].duration = duration],
         "duration", node_id, duration)

\* a variant of visit_mixed that visits before mix_results has run
TreeVisitMixedLate(mixed, v) ==
    LET r == Visit(mixed.elements[1],
                   Step(v, "visit", Key(mixed.elements[1]), 0))
        m == MixResults(mixed)
        v1 == Step(r.v, "mix_results", Key(m.first), 0)
    IN  [v |-> SetDuration(v1, r.ids[1], m.duration), ids |-> r.ids]

\* TreeVisitor.visit_mixed
TreeVisitMixed(mixed, v) ==
    LET m == MixResults(mixed)
        v0 == Step(v, "mix_results", Key(m.first), 0)
        r == Visit(m.first, Step(v0, "visit", Key(m.first), 0))
    IN  [v |-> SetDuration(r.v, r.ids[1], m.duration), ids |-> r.ids]

\* NoMatchVisitor.visit_mixed
NoMatchVisitMixed(mixed, v) ==
    LET m == MixResults(mixed)
        v0 == Step(v, "mix_results", Key(m.first), 0)
        r == Visit(m.first, Step(v0, "visit", Key(m.first), 0))
    IN  [v |-> SetDuration(r.v, r.id, m.duration), id |-> r.id,
         node |-> r.node]

RECURSIVE CombineMixedLoop(_, _, _, _)
\* the for loop of CombineVisitor.visit_mixed
CombineMixedLoop(elements, k, v, result) ==
    IF k > Len(elements) THEN [v |-> v, id |-> result.id, node |-> result.node]
    ELSE LET r == Visit(elements[k],
                        Step(v, "visit", Key(elements[k]), 0))
         IN  CombineMixedLoop(elements, k + 1, r.v, r)

\* CombineVisitor.visit_mixed
CombineVisitMixed(mixed, v) ==
    CombineMixedLoop(mixed.elements, 1, v, [id |-> None, node |-> None])

\* element.visit(visitor): dispatch on the element and on the visitor's class
Visit(t, v) ==
    IF v.cls = "TreeVisitor"
    THEN CASE t.tag = "Single" -> TreeVisitSingle(t, v)
           [] t.tag = "Call" -> TreeVisitCall(t, v)
           [] t.tag = "Group" -> TreeVisitGroup(t, v)
           [] t.tag = "Mixed" -> TreeVisitMixed(t, v)
    ELSE CASE t.tag = "Single" -> NoMatchVisitSingle(t, v)
           [] t.tag = "Call" /\ v.cls = "CombineVisitor" -> CombineVisitCall(t, v)
           [] t.tag = "Call" -> NoMatchVisitCall(t, v)
           [] t.tag = "Group" -> NoMatchVisitGroup(t, v)
           [] t.tag = "Mixed" /\ v.cls = "CombineVisitor" ->
                CombineVisitMixed(t, v)
           [] t.tag = "Mixed" -> NoMatchVisitMixed(t, v)

(***************************************************************************)
(* ExactMatchVisitor: the visits return a rewritten tree.  A visit yields  *)
(* the new element t, the error raised (if any), and src, the visited      *)
(* element after the writes made on it.                                    *)
(***************************************************************************)
RECURSIVE ExactMatch(_, _)

\* ExactMatchVisitor.visit_single
ExactVisitSingle(single) ==
    LET s == Single([id |-> single.id, parent |-> single.parent,
                     name |-> single.name, duration |-> single.duration,
                     trial_id |-> single.trial_id])
    IN  [t |-> [s EXCEPT !.level = single.level, !.use_id = FALSE],
         err |-> "none", src |-> single]

\* ExactMatchVisitor.visit_call
ExactVisitCall(call, keysIsList) ==
    LET caller == ExactMatch(call.caller, keysIsList)
        called == ExactMatch(call.called, keysIsList)
    IN  IF caller.err # "none"
        THEN [t |-> None, err |-> caller.err,
              src |-> [call EXCEPT !.caller = caller.src]]
        ELSE IF called.err # "none"
        THEN [t |-> None, err |-> called.err,
              src |-> [call EXCEPT !.caller = caller.src,
                                   !.called = called.src]]
        ELSE [t |-> [Call(caller.t, called.t) EXCEPT !.use_id = FALSE,
                                                     !.level = call.level],
              err |-> "none",
              src |-> [call EXCEPT !.caller = caller.src,
                                   !.called = called.src]]

RECURSIVE ExactGroupLoop(_, _, _, _, _)
\* the for loop of ExactMatchVisitor.visit_group over nodes[2:]
ExactGroupLoop(nodes, k, g, src, keysIsList) ==
    IF k > Len(nodes) THEN [t |-> g, err |-> "none", src |-> src]
    ELSE LET e == ExactMatch(nodes[k], keysIsList)
             src1 == [src EXCEPT !.nodes[k] = e.src]
         IN  IF e.err # "none" THEN [t |-> None, err |-> e.err, src |-> src1]
             ELSE ExactGroupLoop(nodes, k + 1, GroupAddSubelement(g, e.t),
                                 src1, keysIsList)

\* the body of ExactMatchVisitor.visit_group where group.nodes.keys() is a
\* list: initialize(nodes[1], nodes[0]), then add_subelement for nodes[2:]
ExactVisitGroupListed(group, keysIsList) ==
    LET nodes == group.nodes
        previous == ExactMatch(nodes[2], keysIsList)
        next == ExactMatch(nodes[1], keysIsList)
        src == [group EXCEPT !.nodes[2] = previous.src, !.nodes[1] = next.src]
    IN  IF Len(nodes) < 2
        THEN [t |-> None, err |-> "IndexError", src |-> group]
        ELSE IF previous.err # "none"
        THEN [t |-> None, err |-> previous.err,
              src |-> [group EXCEPT !.nodes[2] = previous.src]]
        ELSE IF next.err # "none"
        THEN [t |-> None, err |-> next.err, src |-> src]
        ELSE LET g == [GroupInitialize(previous.t, next.t)
                          EXCEPT !.use_id = FALSE]
                 r == ExactGroupLoop(nodes, 3, g, src, keysIsList)
             IN  IF r.err # "none" THEN r
                 ELSE [r EXCEPT !.t.level = group.level]

\* ExactMatchVisitor.visit_group: nodes[1] on group.nodes.keys() works where
\* keys() is a list and raises TypeError where it is a view
ExactVisitGroup(group, keysIsList) ==
    IF ~keysIsList
    THEN [t |-> None, err |-> "TypeError", src |-> group]
    ELSE ExactVisitGroupListed(group, keysIsList)

\* ExactMatchVisitor.visit_mixed: the name 'elements' of the for loop is
\* not defined
ExactVisitMixed(mixed, keysIsList) ==
    LET src == [mixed EXCEPT !.use_id = FALSE]
        e == ExactMatch(mixed.elements[1], keysIsList)
        src1 == [src EXCEPT !.elements[1] = e.src]
    IN  IF e.err # "none" THEN [t |-> None, err |-> e.err, src |-> src1]
        ELSE [t |-> None, err |-> "NameError", src |-> src1]

\* element.visit(ExactMatchVisitor())
ExactMatch(t, keysIsList) ==
    CASE t.tag = "Single" -> ExactVisitSingle(t)
      [] t.tag = "Call" -> ExactVisitCall(t, keysIsList)
      [] t.tag = "Group" -> ExactVisitGroup(t, keysIsList)
      [] t.tag = "Mixed" -> ExactVisitMixed(t, keysIsList)

(***************************************************************************)
(* Export: to_dict                                                         *)
(***************************************************************************)
\* TreeVisitor.update_durations
UpdateDurations(v, duration, tid) ==
    LET mx == IF tid \in DOMAIN v.max_duration
              THEN v.max_duration[tid] ELSE MaxDefault
        mn == IF tid \in DOMAIN v.min_duration
              THEN v.min_duration[tid] ELSE MinDefault
    IN  [v EXCEPT
          !.max_duration = [t \in DOMAIN @ \cup {tid} |->
                              IF t = tid THEN Max(mx, duration) ELSE @[t]],
          !.min_duration = [t \in DOMAIN @ \cup {tid} |->
                              IF t = tid THEN Min(mn, duration) ELSE @[t]]]

\* a variant of update_node whose mean is the duration
MeanOfNodeNoDivision(node) == <<node.duration, 1>>

\* node['mean'] = node['duration'] / node['count']
MeanOfNode(node) == Quotient(node.duration, node.count)

\* a variant of NoMatchVisitor.update_edges that clears call edges only
NoMatchUpdateEdgesCallOnly(edges) ==
    [k \in 1..Len(edges) |->
        IF edges[k].type = "call"
        THEN [edges[k] EXCEPT !.count = EmptyStr]
        ELSE edges[k]]

\* NoMatchVisitor.update_edges
NoMatchUpdateEdges(edges) ==
    [k \in 1..Len(edges) |->
        IF edges[k].type \in {"return", "call"}
        THEN [edges[k] EXCEPT !.count = EmptyStr]
        ELSE edges[k]]

\* self.update_edges(), by the class of the visitor
UpdateEdges(v) ==
    IF v.cls = "NoMatchVisitor"
    THEN [v EXCEPT !.edges = NoMatchUpdateEdges(@)]
    ELSE v

RECURSIVE ToDictLoop(_, _)
\* the for loop of to_dict with update_node inlined; an exception ends it
ToDictLoop(v, k) ==
    IF k > Len(v.nodes) THEN [v |-> v, err |-> "none"]
    ELSE LET n == v.nodes[k].node IN
         IF n.count = 0 THEN [v |-> v, err |-> "ZeroDivisionError"]
         ELSE LET v1 == [v EXCEPT !.nodes[k].node.mean = MeanOfNode(n)] IN
              IF n.info.typ # "Info" THEN [v |-> v1, err |-> "AttributeError"]
              ELSE ToDictLoop(
                     UpdateDurations(
                       [v1 EXCEPT !.nodes[k].node.info.typ = "str"],
                       n.duration, n.trial_id),
                     k + 1)

\* TreeVisitor.to_dict
ToDict(v) ==
    LET r == ToDictLoop(v, 1)
    IN  IF r.err = "none" THEN [v |-> UpdateEdges(r.v), err |-> "none"] ELSE r

\* the names trial_graph.py imports from .structures
Imported == {"Single", "Call", "Group", "Mixed"}

Init ==
    /\ trial \in Traces
    /\ pc = "idle"
    /\ view = "none"
    /\ stack = <<>>
    /\ level = [k \in {} |-> 0]
    /\ idx = 0
    /\ graph = None
    /\ visitor = None
    /\ err = "none"

Views == {"tree", "no_match", "exact_match", "combine"}

\* TrialGraph.tree / no_match / exact_match / combine entering
\* TrialGraph.graph
Request ==
    /\ pc = "idle"
    /\ \E v \in Views : view' = v
    /\ pc' = IF graph = None THEN "generate" ELSE "visit"
    /\ visitor' = None
    /\ UNCHANGED <<trial, stack, level, idx, graph, err>>

\* generate_graph up to the first loop iteration
GenStart ==
    /\ pc = "generate"
    /\ IF trial = <<>>
       THEN IF "TreeElement" \in Imported
            THEN /\ graph' = [tag |-> "TreeElement", level |-> 0]
                 /\ pc' = "visit"
                 /\ UNCHANGED <<stack, level, idx, err>>
            ELSE /\ err' = "NameError"
                 /\ pc' = "raised"
                 /\ UNCHANGED <<stack, level, idx, graph>>
       ELSE /\ stack' = << << [Single(trial[1]) EXCEPT !.level = 0] >> >>
            /\ level' = [k \in {trial[1].id} |-> 0]
            /\ idx' = 2
            /\ pc' = "loop"
            /\ UNCHANGED <<graph, err>>
    /\ UNCHANGED <<trial, view, visitor>>

\* a variant of the lookup that takes an unseen parent for the root's caller
LevelOfParentOrTop(lvl, parent) ==
    IF parent \in DOMAIN lvl
    THEN [ok |-> TRUE, level |-> lvl[parent]]
    ELSE [ok |-> TRUE, level |-> -1]

\* level[act.parent]: a parent that was not seen raises KeyError
LevelOfParent(lvl, parent) ==
    IF parent \in DOMAIN lvl
    THEN [ok |-> TRUE, level |-> lvl[parent]]
    ELSE [ok |-> FALSE, level |-> -1]

\* one iteration of the for loop of generate_graph
GenLoop ==
    /\ pc = "loop"
    /\ idx <= Len(trial)
    /\ LET a == trial[idx]
           found == LevelOfParent(level, a.parent) IN
       IF ~found.ok
       THEN /\ err' = "KeyError"
            /\ pc' = "raised"
            /\ UNCHANGED <<stack, level, idx>>
       ELSE LET lv == found.level + 1
                act == [Single(a) EXCEPT !.level = lv]
                last == Last(Last(stack))
                top == Len(stack)
            IN  /\ level' = [k \in DOMAIN level \cup {a.id} |->
                               IF k = a.id THEN lv ELSE level[k]]
                /\ stack' =
                     IF lv = last.level
                     THEN [stack EXCEPT ![top] = Append(@, act)]
                     ELSE IF lv > last.level
                     THEN Append(stack, <<act>>)
                     ELSE LET s == ListToCall(stack)
                          IN  [s EXCEPT ![Len(s)] = Append(@, act)]
                /\ idx' = idx + 1
                /\ UNCHANGED <<pc, err>>
    /\ UNCHANGED <<trial, view, graph, visitor>>

\* one iteration of the closing while loop of generate_graph
GenClose ==
    /\ pc = "loop"
    /\ idx > Len(trial)
    /\ Len(stack) > 1
    /\ stack' = ListToCall(stack)
    /\ UNCHANGED <<trial, pc, view, level, idx, graph, visitor, err>>

\* return(stack[-1][-1]), cached by TrialGraph.graph
GenReturn ==
    /\ pc = "loop"
    /\ idx > Len(trial)
    /\ Len(stack) = 1
    /\ graph' = Last(Last(stack))
    /\ pc' = "visit"
    /\ UNCHANGED <<trial, view, stack, level, idx, visitor, err>>

RECURSIVE WriteTreeName(_, _)
\* a variant of the write that lands on the attribute the namespace is read
\* from: single.name = namespace
WriteTreeName(t, writes) ==
    CASE t.tag = "Single" ->
           IF \E w \in writes : w.id = t.id
           THEN [t EXCEPT !.name =
                   (CHOOSE w \in writes : w.id = t.id).namespace]
           ELSE t
      [] t.tag = "Call" ->
           [t EXCEPT !.caller = WriteTreeName(@, writes),
                     !.called = WriteTreeName(@, writes)]
      [] t.tag = "Group" ->
           [t EXCEPT !.nodes =
              [k \in 1..Len(@) |-> WriteTreeName(@[k], writes)]]
      [] OTHER -> t

RECURSIVE WriteTree(_, _)
\* the tree after the attribute writes a traversal made on its Single nodes
WriteTree(t, writes) ==
    CASE t.tag = "Single" ->
           IF \E w \in writes : w.id = t.id
           THEN [t EXCEPT !.namespace =
                   (CHOOSE w \in writes : w.id = t.id).namespace]
           ELSE t
      [] t.tag = "Call" ->
           [t EXCEPT !.caller = WriteTree(@, writes),
                     !.called = WriteTree(@, writes)]
      [] t.tag = "Group" ->
           [t EXCEPT !.nodes = [k \in 1..Len(@) |-> WriteTree(@[k], writes)]]
      [] t.tag = "Mixed" ->
           [t EXCEPT !.elements = [k \in 1..Len(@) |-> WriteTree(@[k], writes)],
                     !.first = IF @ = None THEN @ ELSE WriteTree(@, writes)]
      [] OTHER -> t

RECURSIVE MixTree(_, _)
\* the tree after the mix_results calls of a traversal
MixTree(t, steps) ==
    CASE t.tag = "Call" -> [t EXCEPT !.called = MixTree(@, steps)]
      [] t.tag = "Group" ->
           [t EXCEPT !.nodes = [k \in 1..Len(@) |-> MixTree(@[k], steps)]]
      [] t.tag = "Mixed" ->
           IF \E k \in 1..Len(steps) :
                 steps[k].op = "mix_results" /\ steps[k].id = Key(t.elements[1])
           THEN MixResults(t) ELSE t
      [] OTHER -> t

VisitorClass(vw) ==
    CASE vw = "tree" -> "TreeVisitor"
      [] vw = "no_match" -> "NoMatchVisitor"
      [] vw = "combine" -> "CombineVisitor"

\* visitor = <Class>(); graph.visit(visitor)
DoVisit ==
    /\ pc = "visit"
    /\ view # "exact_match"
    /\ LET r == Visit(graph, NewVisitor(VisitorClass(view)))
       IN  /\ visitor' = r.v
           /\ graph' = WriteTree(MixTree(graph, r.v.steps), r.v.writes)
    /\ pc' = "export"
    /\ UNCHANGED <<trial, view, stack, level, idx, err>>

\* TrialGraph.exact_match: graph = graph.visit(ExactMatchVisitor()), then
\* visitor = NoMatchVisitor(); graph.visit(visitor).  Whether dict.keys()
\* is a list depends on the interpreter that runs the program.
DoExactMatch ==
    /\ pc = "visit"
    /\ view = "exact_match"
    /\ \E keysIsList \in BOOLEAN :
          LET x == ExactMatch(graph, keysIsList) IN
          /\ graph' = x.src
          /\ IF x.err # "none"
             THEN /\ err' = x.err
                  /\ pc' = "raised"
                  /\ UNCHANGED visitor
             ELSE /\ visitor' = Visit(x.t, NewVisitor("NoMatchVisitor")).v
                  /\ pc' = "export"
                  /\ UNCHANGED err
    /\ UNCHANGED <<trial, view, stack, level, idx>>

\* visitor.to_dict(): the call of the view request, or one more call on the
\* same accumulator
DoToDict ==
    /\ pc \in {"export", "returned"}
    /\ LET r == ToDict(visitor)
       IN  /\ visitor' = r.v
           /\ err' = r.err
           /\ pc' = IF r.err = "none" THEN "returned" ELSE "raised"
    /\ UNCHANGED <<trial, view, stack, level, idx, graph>>

\* the view request has returned its export; the TrialGraph is idle again
Return ==
    /\ pc = "returned"
    /\ pc' = "idle"
    /\ UNCHANGED <<trial, view, stack, level, idx, graph, visitor, err>>

\* the caller caught the exception of a request; the TrialGraph lives on
Caught ==
    /\ pc = "raised"
    /\ pc' = "idle"
    /\ err' = "none"
    /\ UNCHANGED <<trial, view, stack, level, idx, graph, visitor>>

Next ==
    \/ Request
    \/ GenStart
    \/ GenLoop
    \/ GenClose
    \/ GenReturn
    \/ DoVisit
    \/ DoExactMatch
    \/ DoToDict
    \/ Return
    \/ Caught

Spec == Init /\ [][Next]_vars

(***************************************************************************)
(* Trees that hold a Mixed.  generate_graph makes none; the structures make *)
(* them when equivalent elements are merged, and the visitors take them.   *)
(***************************************************************************)
MaxMixed == 3
Policies == {"sum", "max"}
Placements == {"root", "callee"}

\* n equivalent activations, alone or called by one main activation
MixedTrial(n, d, placed) ==
    IF placed = "root"
    THEN [k \in 1..n |-> Act(k, NoParent, "f", d[k])]
    ELSE [k \in 1..(n + 1) |->
            IF k = 1 THEN Act(1, NoParent, DefaultName, DefaultDuration)
            ELSE Act(k, 0, "f", d[k - 1])]

RECURSIVE MixedOf(_, _)
\* Mixed(elements[0]) followed by add_element for the others
MixedOf(elements, policy) ==
    IF Len(elements) = 1 THEN Mixed(elements[1], policy)
    ELSE MixedAddElement(MixedOf(Front(elements), policy), Last(elements))

\* the tree over such a trial
MixedTree(tr, policy, placed) ==
    LET lv == IF placed = "root" THEN 0 ELSE 1
        from == IF placed = "root" THEN 1 ELSE 2
        elements == [k \in 1..(Len(tr) - from + 1) |->
                       [Single(tr[k + from - 1]) EXCEPT !.level = lv]]
        mixed == [MixedOf(elements, policy) EXCEPT !.level = lv]
    IN  IF placed = "root" THEN mixed
        ELSE [Call([Single(tr[1]) EXCEPT !.level = 0], mixed)
                 EXCEPT !.level = 0]

MixedInputs ==
    UNION { { [trial |-> MixedTrial(n, x[1], x[3]),
               graph |-> MixedTree(MixedTrial(n, x[1], x[3]), x[2], x[3])] :
                x \in [1..n -> Durations] \X Policies \X Placements } :
            n \in 1..MaxMixed }

\* a TrialGraph whose tree holds a Mixed
InitMixed ==
    /\ \E i \in MixedInputs : trial = i.trial /\ graph = i.graph
    /\ pc = "idle"
    /\ view = "none"
    /\ stack = <<>>
    /\ level = [k \in {} |-> 0]
    /\ idx = 0
    /\ visitor = None
    /\ err = "none"

NextMixed ==
    \/ Request
    \/ DoVisit
    \/ DoExactMatch
    \/ DoToDict
    \/ Return
    \/ Caught

SpecMixed == InitMixed /\ [][NextMixed]_vars

(***************************************************************************)
(* Vocabulary of the properties.                                           *)
(***************************************************************************)
Built == graph # None
Visited == pc \in {"export", "returned"} /\ visitor # None
Exported == pc = "returned"

\* every non-first activation's parent is an earlier activation
ParentsEarlier(tr) ==
    \A k \in 2..Len(tr) : \E j \in 1..(k - 1) : tr[j].id = tr[k].parent

RECURSIVE AncestorsOrSelf(_, _)
\* an activation and its callers up to the root (ids are positions - 1)
AncestorsOrSelf(tr, id) ==
    IF id = NoParent THEN {}
    ELSE {id} \cup AncestorsOrSelf(tr, tr[id + 1].parent)

\* a trace a call stack can produce: every activation is called by the
\* previous activation or by one of the previous activation's callers
StackOrdered(tr) ==
    /\ tr # <<>>
    /\ ParentsEarlier(tr)
    /\ \A k \in 2..Len(tr) : tr[k].parent \in AncestorsOrSelf(tr, tr[k - 1].id)

\* the nesting level of the k-th activation of a trace
LevelOf(tr, k) == Cardinality(AncestorsOrSelf(tr, tr[k].id)) - 1

\* the nesting level drops by two or more somewhere in the trace
DropsTwo(tr) ==
    \E k \in 2..Len(tr) : LevelOf(tr, k) + 2 <= LevelOf(tr, k - 1)

RECURSIVE CountSingles(_)
\* Single nodes reachable as Call callers, Call callees and Group elements
CountSingles(t) ==
    CASE t.tag = "Single" -> 1
      [] t.tag = "Call" -> CountSingles(t.caller) + CountSingles(t.called)
      [] t.tag = "Group" ->
           LET RECURSIVE sum(_)
               sum(k) == IF k = 0 THEN 0
                         ELSE CountSingles(t.nodes[k]) + sum(k - 1)
           IN  sum(Len(t.nodes))
      [] OTHER -> 0

RECURSIVE CallerPairs(_, _)
\* <<activation, caller>> for every activation of the tree: the caller of
\* the Call whose callee directly contains it (NoParent for the root)
CallerPairs(t, callerId) ==
    CASE t.tag = "Single" -> {<<t.id, callerId>>}
      [] t.tag = "Call" ->
           {<<t.caller.id, callerId>>} \cup CallerPairs(t.called, t.caller.id)
      [] t.tag = "Group" ->
           UNION {CallerPairs(t.nodes[k], callerId) : k \in 1..Len(t.nodes)}
      [] OTHER -> {}

RECURSIVE GroupsInOrder(_)
\* the elements of every Group are in input order
GroupsInOrder(t) ==
    CASE t.tag = "Call" -> GroupsInOrder(t.called)
      [] t.tag = "Group" ->
           /\ \A j, k \in 1..Len(t.nodes) :
                 j < k => Key(t.nodes[j]) < Key(t.nodes[k])
           /\ \A k \in 1..Len(t.nodes) : GroupsInOrder(t.nodes[k])
      [] OTHER -> TRUE

\* the tree is the call tree of the trace
IsCallTree(t, tr) ==
    /\ CallerPairs(t, NoParent) = {<<tr[k].id, tr[k].parent>> : k \in 1..Len(tr)}
    /\ GroupsInOrder(t)

\* the activations of a tree
TreeActs(t) == {p[1] : p \in CallerPairs(t, NoParent)}

\* the keys of the direct callees of a Call, in visiting order
Callees(call) ==
    IF call.called.tag = "Group"
    THEN [k \in 1..Len(call.called.nodes) |-> Key(call.called.nodes[k])]
    ELSE <<Key(call.called)>>

\* positions of the exported nodes that hold activation a
NodesOf(v, a) == {k \in 1..Len(v.nodes) : a \in v.nodes[k].node.info.acts}
\* the id of the exported node that holds activation a
NodeId(v, a) == v.nodes[CHOOSE k \in NodesOf(v, a) : TRUE].index

EdgeSet(v) == {v.edges[k] : k \in 1..Len(v.edges)}

(***************************************************************************)
(* C1                                                                      *)
(***************************************************************************)
\* generate_graph has returned with one pending list holding one root, and
\* the root reaches as many Single nodes as there are activations
OneRootAllSingles ==
    /\ Len(stack) = 1
    /\ Len(stack[1]) = 1
    /\ CountSingles(graph) = Len(trial)

\* while generate_graph runs no pop can fail and the loops are bounded: the
\* for loop by the trace, the closing loop by the height of the stack
PendingListsNonEmpty ==
    /\ Len(stack) >= 1
    /\ \A k \in 1..Len(stack) : stack[k] # <<>>
    /\ idx \in 2..(Len(trial) + 1)

\* C1 as stated: for every non-empty start-ordered activation sequence in
\* which each non-first activation's parent appears earlier, generate_graph
\* ends with a single pending list, returns exactly one root, and the root
\* reaches exactly one Single per input activation.
C1_AnyEarlierParent ==
    /\ (pc = "loop" /\ ParentsEarlier(trial)) => PendingListsNonEmpty
    /\ (Built /\ trial # <<>> /\ ParentsEarlier(trial)) => OneRootAllSingles

\* C1 amended: the same result for every non-empty activation sequence in
\* which each non-first activation's parent is the previous activation or
\* one of its callers (the trace of a call stack).
C1_StackOrdered ==
    /\ (pc = "loop" /\ StackOrdered(trial)) => PendingListsNonEmpty
    /\ (Built /\ StackOrdered(trial)) => OneRootAllSingles

\* C1 witness: a stack-ordered trace whose level drops by two has been built
C1_Witness ==
    /\ Built /\ StackOrdered(trial) /\ DropsTwo(trial)
    /\ Len(trial) = MaxActs

(***************************************************************************)
(* C2                                                                      *)
(***************************************************************************)
\* C2: the tree returned by generate_graph is the call tree of the trace:
\* the caller of the Call that directly contains a non-root activation is
\* the activation's parent, and siblings are grouped in input order, for
\* every well-formed trace, level drops of two or more included.
C2_CallTree ==
    (Built /\ StackOrdered(trial)) => IsCallTree(graph, trial)

(***************************************************************************)
(* C3                                                                      *)
(***************************************************************************)
\* the trace main, f (parent main), f (parent main)
TwoCallees ==
    /\ Len(trial) = 3
    /\ trial[2].parent = 0
    /\ trial[3].parent = 0

\* Call(main, Group(f#1, f#2))
CallOfGroup ==
    /\ graph.tag = "Call" /\ graph.caller.id = 0
    /\ graph.called.tag = "Group"
    /\ Callees(graph) = <<1, 2>>

EdgeOf(src, tgt, cnt, typ) ==
    [source |-> src, target |-> tgt, count |-> cnt, type |-> typ]

\* C3 as stated: for the trace main, f, f the Full-Tree Visitor exports 3
\* nodes and exactly the edges initial -> main, main -> f#1 of type call and
\* f#1 -> f#2 of type sequence with count 1.
C3_InitialCallSequence ==
    (view = "tree" /\ Exported /\ TwoCallees) =>
        /\ CallOfGroup
        /\ Len(visitor.nodes) = 3
        /\ Len(visitor.edges) = 3
        /\ \E e \in EdgeSet(visitor) : e.type = "initial" /\ e.target = 0
        /\ \E e \in EdgeSet(visitor) :
              e.type = "call" /\ e.source = 0 /\ e.target = 1
        /\ EdgeOf(1, 2, Num(1), "sequence") \in EdgeSet(visitor)

RECURSIVE PositionEdges(_, _)
\* one call edge from the node of every caller to the node of each of its
\* direct callees, counted by the callee's position
PositionEdges(t, v) ==
    CASE t.tag = "Call" ->
           {EdgeOf(NodeId(v, t.caller.id), NodeId(v, Callees(t)[k]),
                   Num(k), "call") : k \in 1..Len(Callees(t))}
             \cup PositionEdges(t.called, v)
      [] t.tag = "Group" ->
           UNION {PositionEdges(t.nodes[k], v) : k \in 1..Len(t.nodes)}
      [] OTHER -> {}

\* C3 amended: for the trace main, f, f the builder returns
\* Call(main, Group(f#1, f#2)) and the Full-Tree Visitor exports 3 nodes and
\* exactly two edges, main -> f#1 of type call with count 1 and main -> f#2
\* of type call with count 2; in general it exports one node per activation
\* and one call edge from a caller to each of its direct callees, counted by
\* the callee's position, and no initial or sequence edge.
C3_CallEdgeToEachCallee ==
    (view = "tree" /\ Visited) =>
        /\ Len(visitor.nodes) = CountSingles(graph)
        /\ \A a \in TreeActs(graph) : Cardinality(NodesOf(visitor, a)) = 1
        /\ EdgeSet(visitor) = PositionEdges(graph, visitor)
        /\ Len(visitor.edges) = Cardinality(EdgeSet(visitor))
        /\ TwoCallees =>
             /\ CallOfGroup
             /\ visitor.edges = <<EdgeOf(0, 1, Num(1), "call"),
                                  EdgeOf(0, 2, Num(2), "call")>>

\* C3 witness: the full-tree export of main, f, f
C3_Witness ==
    /\ view = "tree" /\ Exported /\ TwoCallees
    /\ Len(visitor.nodes) = 3 /\ Len(visitor.edges) = 2

(***************************************************************************)
(* C4                                                                      *)
(***************************************************************************)
\* C4: with zero activations generate_graph does not raise, and the export
\* of the element it returns has zero nodes and zero edges.
C4_EmptyTrial ==
    trial = <<>> =>
        /\ pc # "raised"
        /\ Exported => (visitor.nodes = <<>> /\ visitor.edges = <<>>)

(***************************************************************************)
(* C5                                                                      *)
(***************************************************************************)
RECURSIVE QualifiedName(_, _)
\* the names of the callers of an activation, root first, then its own name
QualifiedName(tr, id) ==
    IF id = NoParent THEN <<>>
    ELSE Append(QualifiedName(tr, tr[id + 1].parent), tr[id + 1].name)

RECURSIVE SumDuration(_, _)
SumDuration(tr, acts) ==
    IF acts = {} THEN 0
    ELSE LET a == CHOOSE x \in acts : TRUE
         IN  tr[a + 1].duration + SumDuration(tr, acts \ {a})

\* C5: in the Combine Visitor two activations with the same
\* ancestor-qualified name are exported as one node whose count and duration
\* are the sums over its activations, whether an activation is a leaf Single
\* or the caller of a Call.
C5_SameQualifiedNameOneNode ==
    (view = "combine" /\ Visited /\ StackOrdered(trial)
        /\ IsCallTree(graph, trial)) =>
      \A j, k \in 1..Len(trial) :
        QualifiedName(trial, trial[j].id) = QualifiedName(trial, trial[k].id)
          => \E n \in 1..Len(visitor.nodes) :
               LET node == visitor.nodes[n].node IN
               /\ {trial[j].id, trial[k].id} \subseteq node.info.acts
               /\ node.count = Cardinality(node.info.acts)
               /\ node.duration = SumDuration(trial, node.info.acts)

(***************************************************************************)
(* C6                                                                      *)
(***************************************************************************)
SameTriple(a, b) ==
    a.source = b.source /\ a.target = b.target /\ a.type = b.type

RECURSIVE SumCalls(_, _, _)
\* the sum of the counts passed to the first k add_edge calls for e's triple
SumCalls(calls, k, e) ==
    IF k = 0 THEN 0
    ELSE (IF SameTriple(calls[k], e) THEN calls[k].count ELSE 0)
           + SumCalls(calls, k - 1, e)

CallsFor(v, e) == {k \in 1..Len(v.calls) : SameTriple(v.calls[k], e)}

\* C6: in the Combine Visitor no two edges share (source, target, type);
\* the first add_edge for a triple appends one edge, later ones append
\* nothing, and the edge's count is the sum of all counts passed for it.
C6_EdgesMerged ==
    (view = "combine" /\ Visited) =>
        /\ \A i, j \in 1..Len(visitor.edges) :
              SameTriple(visitor.edges[i], visitor.edges[j]) => i = j
        /\ \A k \in 1..Len(visitor.calls) :
              \E e \in EdgeSet(visitor) : SameTriple(visitor.calls[k], e)
        /\ \A e \in EdgeSet(visitor) :
              /\ CallsFor(visitor, e) # {}
              /\ e.count = Num(SumCalls(visitor.calls, Len(visitor.calls), e))

\* C6 witness: add_edge was called twice for one triple
C6_Witness ==
    /\ view = "combine" /\ Visited
    /\ \E e \in EdgeSet(visitor) :
          Cardinality(CallsFor(visitor, e)) >= 2 /\ e.count = Num(2)

(***************************************************************************)
(* C7                                                                      *)
(***************************************************************************)
RECURSIVE GroupEdges(_)
\* the transitions recorded in the Groups of a tree
GroupEdges(t) ==
    CASE t.tag = "Call" -> GroupEdges(t.called)
      [] t.tag = "Group" ->
           {t.edges[k] : k \in 1..Len(t.edges)}
             \cup UNION {GroupEdges(t.nodes[k]) : k \in 1..Len(t.nodes)}
      [] OTHER -> {}

SequencePositions(v) == {k \in 1..Len(v.edges) : v.edges[k].type = "sequence"}

\* C7: in the no-match view every occurrence of an activation is its own
\* node, and after to_dict every call or return edge has the placeholder
\* count '' while every sequence edge keeps the count recorded in the Group.
C7_NoMatchExport ==
    (view = "no_match" /\ Visited) =>
        /\ Len(visitor.nodes) = CountSingles(graph)
        /\ \A a \in TreeActs(graph) :
              /\ Cardinality(NodesOf(visitor, a)) = 1
              /\ \A k \in NodesOf(visitor, a) :
                    visitor.nodes[k].node.info.acts = {a}
        /\ Exported =>
              /\ \A e \in EdgeSet(visitor) :
                    e.type \in {"call", "return"} => e.count = EmptyStr
              /\ {visitor.edges[k] : k \in SequencePositions(visitor)} =
                    {EdgeOf(NodeId(visitor, g.previous),
                            NodeId(visitor, g.next), Num(g.count),
                            "sequence") : g \in GroupEdges(graph)}
              /\ Cardinality(SequencePositions(visitor)) =
                    Cardinality(GroupEdges(graph))

\* C7 witness: the no-match export of A calling B twice in sequence
C7_Witness ==
    /\ view = "no_match" /\ Exported /\ TwoCallees
    /\ trial[2].name = trial[3].name
    /\ Len(visitor.nodes) = 3
    /\ EdgeOf(0, 1, EmptyStr, "call") \in EdgeSet(visitor)
    /\ EdgeOf(2, 0, EmptyStr, "return") \in EdgeSet(visitor)
    /\ EdgeOf(1, 2, Num(1), "sequence") \in EdgeSet(visitor)

(***************************************************************************)
(* C8                                                                      *)
(***************************************************************************)
NodeSet(v) == {v.nodes[k].node : k \in 1..Len(v.nodes)}

\* C8: for every visitor and every built tree each node has count >= 1 when
\* to_dict runs, the division never fails, and to_dict sets each node's
\* mean to duration / count (300 / 1 = 300, 100 / 2 = 50).
C8_MeanIsDurationByCount ==
    /\ err # "ZeroDivisionError"
    /\ Visited => \A n \in NodeSet(visitor) : n.count >= 1
    /\ Exported =>
          \A n \in NodeSet(visitor) :
             /\ n.mean[2] > 0
             /\ n.mean[1] * n.count = n.duration * n.mean[2]
             /\ (n.duration = 300 /\ n.count = 1) => n.mean = <<300, 1>>
             /\ (n.duration = 100 /\ n.count = 2) => n.mean = <<50, 1>>

\* C8 witness: an export with a node of duration 300 and count 1 and a
\* node of duration 100 and count 2
C8_Witness ==
    /\ Exported
    /\ \E n \in NodeSet(visitor) :
          n.duration = 300 /\ n.count = 1 /\ n.mean = <<300, 1>>
    /\ \E n \in NodeSet(visitor) :
          n.duration = 100 /\ n.count = 2 /\ n.mean = <<50, 1>>

(***************************************************************************)
(* C9                                                                      *)
(***************************************************************************)
\* C9: calling to_dict a second time on the same accumulator succeeds and
\* yields the same nodes (with the same means) and the same edges.
C9_ToDictTwice ==
    [][(pc = "returned" /\ pc' # "idle") =>
          /\ pc' = "returned"
          /\ visitor'.nodes = visitor.nodes
          /\ visitor'.edges = visitor.edges]_vars

(***************************************************************************)
(* C10                                                                     *)
(***************************************************************************)
DurationsOf(v, tid) == {n.duration : n \in {m \in NodeSet(v) : m.trial_id = tid}}

\* C10: after to_dict, for every trial id with an exported node,
\* min_duration and max_duration of that trial id are the smallest and the
\* largest duration among its exported nodes, durations above 1000 included.
C10_DurationExtrema ==
    Exported =>
        \A tid \in {n.trial_id : n \in NodeSet(visitor)} :
            /\ tid \in DOMAIN visitor.min_duration
            /\ tid \in DOMAIN visitor.max_duration
            /\ \A d \in DurationsOf(visitor, tid) :
                  /\ visitor.min_duration[tid] <= d
                  /\ visitor.max_duration[tid] >= d
            /\ visitor.min_duration[tid] \in DurationsOf(visitor, tid)
            /\ visitor.max_duration[tid] \in DurationsOf(visitor, tid)
(***************************************************************************)
(* C11                                                                     *)
(***************************************************************************)
\* the ids of the first n nodes of the accumulator
IdsOfFirst(v, n) == {v.nodes[k].index : k \in 1..n}

\* C11: in every visitor, when add_edge is called for an edge that is not
\* the initial edge, source and target are ids of nodes already in the node
\* list; so every exported edge refers only to exported node ids.
C11_NoForwardReference ==
    Visited =>
        /\ \A k \in 1..Len(visitor.calls) :
              LET c == visitor.calls[k] IN
              c.type # "initial" =>
                 /\ c.nodes <= Len(visitor.nodes)
                 /\ c.source \in IdsOfFirst(visitor, c.nodes)
                 /\ c.target \in IdsOfFirst(visitor, c.nodes)
        /\ \A e \in EdgeSet(visitor) :
              /\ e.source \in IdsOfFirst(visitor, Len(visitor.nodes))
              /\ e.target \in IdsOfFirst(visitor, Len(visitor.nodes))

\* C11 witness: a traversal that made call, return and sequence edges
C11_Witness ==
    /\ Visited /\ view = "no_match"
    /\ \A typ \in {"call", "return", "sequence"} :
          \E k \in 1..Len(visitor.calls) : visitor.calls[k].type = typ

(***************************************************************************)
(* C12                                                                     *)
(***************************************************************************)
\* some non-first activation's parent id did not appear earlier
Orphaned(tr) == tr # <<>> /\ ~ParentsEarlier(tr)

\* the position of the first such activation
FirstOrphan(tr) ==
    CHOOSE k \in 2..Len(tr) :
        /\ ~\E j \in 1..(k - 1) : tr[j].id = tr[k].parent
        /\ \A i \in 2..(k - 1) : \E j \in 1..(i - 1) : tr[j].id = tr[i].parent

\* C12: if an activation's parent id has not appeared earlier,
\* generate_graph raises and the error reaches the caller: no tree is
\* returned and TrialGraph caches none.
C12_OrphanRaises ==
    Orphaned(trial) =>
        /\ graph = None
        /\ pc \notin {"visit", "export", "returned"}
        /\ pc = "loop" => idx <= FirstOrphan(trial)
        /\ pc = "raised" => err = "KeyError"

\* C12 witness: the build raised after part of the trace was stacked
C12_Witness ==
    /\ Orphaned(trial) /\ pc = "raised" /\ err = "KeyError"
    /\ FirstOrphan(trial) = 3
    /\ graph = None

(***************************************************************************)
(* C13                                                                     *)
(***************************************************************************)
SeededInitial == {[typ |-> "initial", node |-> 0, count |-> 1]}

\* C13 as stated: for every visitor type, a view request that returns an
\* export has an empty delegated map, the seeded initial entry included.
C13_NothingPending ==
    Exported => visitor.delegated = {}

\* C13 amended: no visitor checks for pending entries.  A NoMatchVisitor or
\* CombineVisitor request that returns an export has an empty delegated
\* map; a TreeVisitor request returns its export with the seeded initial
\* entry still pending.
C13_PendingOnlyInTreeVisitor ==
    Exported =>
        /\ visitor.cls \in {"NoMatchVisitor", "CombineVisitor"}
              => visitor.delegated = {}
        /\ visitor.cls = "TreeVisitor" => visitor.delegated = SeededInitial

\* C13 witness: a no-match export of a tree with a Call and a Group
C13_Witness ==
    /\ Exported /\ view = "no_match"
    /\ graph.tag = "Call" /\ graph.called.tag = "Group"
    /\ visitor.delegated = {}
(***************************************************************************)
(* C14                                                                     *)
(***************************************************************************)
RECURSIVE CallsOf(_)
\* the Call nodes of a tree
CallsOf(t) ==
    CASE t.tag = "Call" -> {t} \cup CallsOf(t.called)
      [] t.tag = "Group" -> UNION {CallsOf(t.nodes[k]) : k \in 1..Len(t.nodes)}
      [] OTHER -> {}

\* the add_edge calls of one type, as positions of the log
CallsOfType(v, typ) == {k \in 1..Len(v.calls) : v.calls[k].type = typ}

\* C14: in a NoMatchVisitor traversal every delegation entry (the seeded
\* initial entry, the call and return entries of each visit_call) yields
\* exactly one edge, emitted when the next visited node or Group takes the
\* pending map; there is one initial edge, its target is node 0, and the
\* pending map is empty at the end.
C14_EachDelegationOneEdge ==
    (Visited /\ view = "no_match") =>
        LET log == visitor.calls
            initials == CallsOfType(visitor, "initial")
            calls == CallsOfType(visitor, "call")
            returns == CallsOfType(visitor, "return")
        IN  /\ Cardinality(initials) = 1
            /\ \A k \in initials : log[k].target = 0 /\ log[k].nodes = 1
            /\ Cardinality(calls) = Cardinality(CallsOf(graph))
            /\ Cardinality(returns) = Cardinality(CallsOf(graph))
            /\ \A c \in CallsOf(graph) :
                  LET cid == NodeId(visitor, c.caller.id)
                      mine == {k \in calls : log[k].source = cid}
                      back == {k \in returns : log[k].target = cid}
                  IN  /\ Cardinality(mine) = 1
                      /\ Cardinality(back) = 1
                      /\ c.called.tag # "Group" =>
                            \A k \in mine \cup back :
                               /\ log[k].nodes = cid + 2
                               /\ {log[k].source, log[k].target}
                                     = {cid, NodeId(visitor, Key(c.called))}
            /\ visitor.delegated = {}

\* C14 witness: a no-match traversal of nested Calls and a Group
C14_Witness ==
    /\ Visited /\ view = "no_match"
    /\ Cardinality(CallsOf(graph)) >= 3
    /\ \E c \in CallsOf(graph) : c.called.tag = "Group"
    /\ \E c \in CallsOf(graph) : c.called.tag = "Call"

(***************************************************************************)
(* C15                                                                     *)
(***************************************************************************)
\* C15: in a NoMatchVisitor traversal, for every Call whose callee is a
\* Group there is exactly one call edge, from the caller's node to the node
\* of group.next, and exactly one return edge, from the node of group.last
\* to the caller's node; both are emitted after every element of the Group
\* was visited, and no other element gets a call or return edge of that
\* caller.
C15_GroupCallAndReturn ==
    (Visited /\ view = "no_match") =>
        \A c \in CallsOf(graph) :
           c.called.tag = "Group" =>
              LET log == visitor.calls
                  g == c.called
                  cid == NodeId(visitor, c.caller.id)
                  mine == {k \in CallsOfType(visitor, "call") :
                              log[k].source = cid}
                  back == {k \in CallsOfType(visitor, "return") :
                              log[k].target = cid}
              IN  /\ Cardinality(mine) = 1
                  /\ Cardinality(back) = 1
                  /\ \A k \in mine : log[k].target = NodeId(visitor, g.next)
                  /\ \A k \in back : log[k].source = NodeId(visitor, g.last)
                  /\ \A k \in mine \cup back :
                        \A a \in TreeActs(g) :
                           NodeId(visitor, a) < log[k].nodes

\* C15 witness: a Call of a Group of three elements, one of them a Call
C15_Witness ==
    /\ Visited /\ view = "no_match"
    /\ \E c \in CallsOf(graph) :
          /\ c.called.tag = "Group"
          /\ Len(c.called.nodes) >= 3
          /\ \E k \in 1..Len(c.called.nodes) : c.called.nodes[k].tag = "Call"
          /\ c.called.next # c.called.last
(***************************************************************************)
(* C16                                                                     *)
(***************************************************************************)
RECURSIVE MixedsOf(_)
\* the Mixed nodes of a tree
MixedsOf(t) ==
    CASE t.tag = "Mixed" -> {t}
      [] t.tag = "Call" -> MixedsOf(t.called)
      [] t.tag = "Group" -> UNION {MixedsOf(t.nodes[k]) : k \in 1..Len(t.nodes)}
      [] OTHER -> {}

\* mix_results, then the visit of the first element only, then the write of
\* mixed.duration on the node that visit returned
FirstOnly(v, m) ==
    LET first == m.elements[1]
        d == CombinedDuration(m.elements, m.policy)
    IN  /\ NodesOf(v, first.id) # {}
        /\ v.steps =
              << [op |-> "mix_results", id |-> Key(first), value |-> 0],
                 [op |-> "visit", id |-> Key(first), value |-> 0],
                 [op |-> "duration", id |-> NodeId(v, first.id), value |-> d] >>
        /\ m.first # None /\ Key(m.first) = Key(first) /\ m.duration = d
        /\ v.nodes[NodeId(v, first.id) + 1].duration = d
        /\ \A k \in 2..Len(m.elements) : NodesOf(v, m.elements[k].id) = {}
        /\ graph.tag = "Call" /\ v.cls = "TreeVisitor" =>
              \E e \in EdgeSet(v) :
                 e.type = "call" /\ e.target = NodeId(v, first.id)

\* every element visited in order, no mix_results and no duration written
EveryElement(v, m) ==
    /\ v.steps = [k \in 1..Len(m.elements) |->
                    [op |-> "visit", id |-> Key(m.elements[k]), value |-> 0]]
    /\ \A k \in 1..Len(m.elements) : NodesOf(v, m.elements[k].id) # {}
    /\ \A k \in 1..Len(v.nodes) : v.nodes[k].duration = -1

\* C16 as stated: for every visitor (TreeVisitor, NoMatchVisitor,
\* CombineVisitor), visiting a Mixed first calls mix_results, then visits
\* only its first representative, then sets the duration recorded for the
\* returned node to mixed.duration; the returned id is the representative's.
C16_EveryVisitorFirstOnly ==
    Visited => \A m \in MixedsOf(graph) : FirstOnly(visitor, m)

\* C16 amended: TreeVisitor and NoMatchVisitor do so, writing the 'duration'
\* key of the returned node's entry; CombineVisitor.visit_mixed instead
\* visits every element in order, calls no mix_results, writes no duration
\* and returns the result of the last element.
C16_CombineVisitsEveryElement ==
    Visited =>
        \A m \in MixedsOf(graph) :
           IF visitor.cls = "CombineVisitor"
           THEN EveryElement(visitor, m)
           ELSE FirstOnly(visitor, m)

\* C16 witness: a no-match traversal of a called Mixed of three elements
\* whose durations differ
C16_Witness ==
    /\ Visited /\ visitor.cls = "NoMatchVisitor"
    /\ graph.tag = "Call"
    /\ \E m \in MixedsOf(graph) :
          /\ Len(m.elements) = 3
          /\ m.elements[1].duration # m.elements[2].duration
          /\ m.duration # m.elements[1].duration
(***************************************************************************)
(* C17                                                                     *)
(***************************************************************************)
RECURSIVE SameShape(_, _)
\* b has the variants, activations, sibling order and levels of a, and
\* use_id = False on every node
SameShape(a, b) ==
    /\ b.tag = a.tag
    /\ b.level = a.level
    /\ b.use_id = FALSE
    /\ CASE a.tag = "Single" -> b.id = a.id
         [] a.tag = "Call" ->
              SameShape(a.caller, b.caller) /\ SameShape(a.called, b.called)
         [] a.tag = "Group" ->
              /\ Len(b.nodes) = Len(a.nodes)
              /\ \A k \in 1..Len(a.nodes) : SameShape(a.nodes[k], b.nodes[k])
         [] a.tag = "Mixed" ->
              /\ Len(b.elements) = Len(a.elements)
              /\ \A k \in 1..Len(a.elements) :
                    SameShape(a.elements[k], b.elements[k])
         [] OTHER -> FALSE

RewriteErrors == {"TypeError", "NameError", "IndexError"}

\* C17: for every built tree the ExactMatchVisitor rewrite completes without
\* error and returns a tree of the same shape (variants, activations,
\* sibling order, levels, use_id = False on every node), and
\* TrialGraph.exact_match then runs a NoMatchVisitor pass over it.
C17_RewriteKeepsShape ==
    /\ (pc = "visit" /\ view = "exact_match") =>
          \A keysIsList \in BOOLEAN :
             LET x == ExactMatch(graph, keysIsList)
             IN  x.err = "none" /\ SameShape(graph, x.t)
    /\ (pc = "raised" /\ view = "exact_match" /\ Built) =>
          err \notin RewriteErrors
    /\ (Visited /\ view = "exact_match") => visitor.cls = "NoMatchVisitor"
(***************************************************************************)
(* C18                                                                     *)
(***************************************************************************)
\* the tree generate_graph returned, as it was when it was cached
Original == Last(Last(stack))

RECURSIVE EraseNamespace(_)
\* the tree without what was written on Single.namespace
EraseNamespace(t) ==
    CASE t.tag = "Single" -> [t EXCEPT !.namespace = ""]
      [] t.tag = "Call" -> [t EXCEPT !.caller = EraseNamespace(@),
                                     !.called = EraseNamespace(@)]
      [] t.tag = "Group" ->
           [t EXCEPT !.nodes = [k \in 1..Len(@) |-> EraseNamespace(@[k])]]
      [] OTHER -> t

\* the accumulator a first request for the view leaves after its traversal
FirstVisit(vw) ==
    IF vw = "exact_match"
    THEN Visit(ExactMatch(Original, TRUE).t, NewVisitor("NoMatchVisitor")).v
    ELSE Visit(Original, NewVisitor(VisitorClass(vw))).v

\* the tree is built only while none is cached, and every request leaves
\* the accumulator of a first request, before and after its to_dict
BuiltOnceSameExport ==
    /\ pc \in {"generate", "loop"} => graph = None
    /\ (Built /\ pc = "export") => visitor = FirstVisit(view)
    /\ (Built /\ pc = "returned") => visitor = ToDict(FirstVisit(view)).v

\* C18 as stated: on one TrialGraph the tree is built at most once; every
\* view request (tree, no_match, exact_match, combine) uses a fresh visitor
\* and writes no field of any node of the cached tree, so each request
\* returns the export it would return as the first request.
C18_TreeNeverWritten ==
    /\ BuiltOnceSameExport
    /\ Built => graph = Original

\* C18 amended: the same, except that a combine request writes
\* Single.namespace on the cached tree; every other field and the structure
\* of the tree stay as built, and no traversal reads namespace.
C18_OnlyNamespaceWritten ==
    /\ BuiltOnceSameExport
    /\ Built => EraseNamespace(graph) = Original

\* C18 witness: a no-match request returns its export on a tree that an
\* earlier combine request has written on
C18_Witness ==
    /\ Built /\ Exported /\ view = "no_match"
    /\ graph # Original
    /\ graph.tag = "Call" /\ graph.called.tag = "Group"

====
